---- MODULE Spec2Model ----
(***************************************************************************)
(* String Analyzer Service: the string analyzer, the natural-language      *)
(* query parser, the list filter, the route table and the string store.    *)
(* Text is modelled by TLA+ strings; a character is a string of length 1.  *)
(***************************************************************************)
EXTENDS Integers, Sequences, FiniteSets, TLC

VARIABLES
    \* GET /strings/filter-by-natural-language
    query,      \* the query parameter
    nlpc,       \* "call" before the handler ran, "done" after
    outcome,    \* what parse_nl_query did: [kind, filters]
    status,     \* the HTTP status the handler answered
    \* analyze_string
    value,      \* the string analyzed
    anpc,       \* "call" / "done"
    props,      \* the dictionary analyze_string returned
    \* GET /strings
    recs,       \* the rows the select returned
    params,     \* the query parameters that are not None
    lspc,       \* "call" / "done"
    listed,     \* the response: [status, data]
    \* the router
    request,    \* [method, path]
    rtpc,       \* "call" / "done"
    handler,    \* what the router did with the request: [endpoint, string_value]
    \* POST /strings and DELETE /strings/{string_value} against the table
    store,      \* the rows of the table, in insertion order
    reqs,       \* the request each worker thread serves: [op, value]
    rpc,        \* where each worker thread is in its handler
    resp        \* the status each worker thread answered, 0 before it did

nlvars == <<query, nlpc, outcome, status>>
anvars == <<value, anpc, props>>
lsvars == <<recs, params, lspc, listed>>
rtvars == <<request, rtpc, handler>>
stvars == <<store, reqs, rpc, resp>>
vars == <<nlvars, anvars, lsvars, rtvars, stvars>>

(***************************************************************************)
(* Characters and the str / re primitives the parser uses.                 *)
(***************************************************************************)
Char(s, i) == SubSeq(s, i, i)

LowerLetters == "abcdefghijklmnopqrstuvwxyz"
UpperLetters == "ABCDEFGHIJKLMNOPQRSTUVWXYZ"
DigitChars == "0123456789"

CharsOf(s) == {Char(s, k) : k \in 1..Len(s)}

LowerSet == CharsOf(LowerLetters)
UpperSet == CharsOf(UpperLetters)
DigitSet == CharsOf(DigitChars)
WordSet == LowerSet \cup UpperSet \cup DigitSet \cup {"_"}

\* \s of the re module, over the whitespace the modelled inputs use
IsSpace(c) == c \in {" ", "\t"}
\* \d
IsDigit(c) == c \in DigitSet
\* [a-z]
IsLowerLetter(c) == c \in LowerSet
\* \w
IsWordChar(c) == c \in WordSet

IndexIn(alphabet, c) == CHOOSE k \in 1..Len(alphabet) : Char(alphabet, k) = c

\* str.lower() on one character
LowerChar(c) ==
    IF c \in UpperSet
    THEN Char(LowerLetters, IndexIn(UpperLetters, c))
    ELSE c

RECURSIVE Lower(_)
Lower(s) ==
    IF Len(s) = 0 THEN ""
    ELSE LowerChar(Char(s, 1)) \o Lower(SubSeq(s, 2, Len(s)))

\* str.strip()
RECURSIVE LStrip(_)
LStrip(s) ==
    IF Len(s) > 0 /\ IsSpace(Char(s, 1)) THEN LStrip(SubSeq(s, 2, Len(s))) ELSE s

RECURSIVE RStrip(_)
RStrip(s) ==
    IF Len(s) > 0 /\ IsSpace(Char(s, Len(s)))
    THEN RStrip(SubSeq(s, 1, Len(s) - 1)) ELSE s

Strip(s) == RStrip(LStrip(s))

\* int() of a string of decimal digits
RECURSIVE ParseInt(_)
ParseInt(d) ==
    IF Len(d) = 0 THEN 0
    ELSE 10 * ParseInt(SubSeq(d, 1, Len(d) - 1))
            + (IndexIn(DigitChars, Char(d, Len(d))) - 1)

\* the literal lit stands in s at position i
LitAt(s, i, lit) ==
    /\ i >= 1
    /\ i + Len(lit) - 1 <= Len(s)
    /\ SubSeq(s, i, i + Len(lit) - 1) = lit

\* "lit in s"
Contains(s, lit) == \E i \in 1..Len(s) : LitAt(s, i, lit)

\* the position after the longest run of whitespace starting at i (\s*)
RECURSIVE SkipSpace(_, _)
SkipSpace(s, i) ==
    IF i <= Len(s) /\ IsSpace(Char(s, i)) THEN SkipSpace(s, i + 1) ELSE i

\* the position after the longest run of digits starting at i (\d*)
RECURSIVE SkipDigits(_, _)
SkipDigits(s, i) ==
    IF i <= Len(s) /\ IsDigit(Char(s, i)) THEN SkipDigits(s, i + 1) ELSE i

\* \b between positions i - 1 and i
WordBoundary(s, i) ==
    LET before == i - 1 >= 1 /\ i - 1 <= Len(s) /\ IsWordChar(Char(s, i - 1))
        after == i >= 1 /\ i <= Len(s) /\ IsWordChar(Char(s, i))
    IN  before # after

\* the least element of a non-empty set of positions, 0 for the empty set
MinPos(S) == IF S = {} THEN 0 ELSE CHOOSE i \in S : \A j \in S : i <= j

(***************************************************************************)
(* The filter dictionary of parse_nl_query: a function whose domain is the *)
(* set of keys that were set.                                              *)
(***************************************************************************)
EmptyDict == [k \in {} |-> 0]

DictSet(d, k, v) == [x \in DOMAIN d \cup {k} |-> IF x = k THEN v ELSE d[x]]

\* dict.get(k, default)
DictGet(d, k, default) == IF k \in DOMAIN d THEN d[k] ELSE default

\* dict.setdefault(k, v)
DictSetDefault(d, k, v) == IF k \in DOMAIN d THEN d ELSE DictSet(d, k, v)

Max(a, b) == IF a >= b THEN a ELSE b

VOWELS == <<"a", "e", "i", "o", "u">>

(***************************************************************************)
(* The regular expressions of parse_nl_query, each matched the way         *)
(* re.search matches it: leftmost position first, and at one position the  *)
(* alternatives in the order they are written.                             *)
(***************************************************************************)

\* \bpalindrom(e|ic)?\b
PalindromeSearch(q) ==
    \E i \in 1..Len(q) :
        \E w \in {"palindrome", "palindromic", "palindrom"} :
            LitAt(q, i, w) /\ WordBoundary(q, i) /\ WordBoundary(q, i + Len(w))

\* \b(single|one)[ -]?word\b
SingleWordSearch(q) ==
    \E i \in 1..Len(q) :
        \E h \in {"single", "one"} : \E sep \in {"", " ", "-"} :
            /\ LitAt(q, i, h \o sep \o "word")
            /\ WordBoundary(q, i)
            /\ WordBoundary(q, i + Len(h) + Len(sep) + 4)

\* word1\s+word2\s+...wordn\s+ at position i: the position after it, or 0
RECURSIVE PhraseEnd(_, _, _)
PhraseEnd(s, i, words) ==
    IF Len(words) = 0 THEN i
    ELSE LET w == Head(words)
             j == i + Len(w)
             k == SkipSpace(s, j)
         IN  IF LitAt(s, i, w) /\ k > j THEN PhraseEnd(s, k, Tail(words)) ELSE 0

\* The first alternative of a length pattern at position i,
\*     <head words>\s+(\d+)\s*chars?
\* <<digits>> (the number group) when it matches there, << >> when it does not.
NumberedAt(s, i, head) ==
    LET p == PhraseEnd(s, i, head)
        e == SkipDigits(s, p)
    IN  IF p # 0 /\ e > p /\ LitAt(s, SkipSpace(s, e), "char")
        THEN <<SubSeq(s, p, e - 1)>>
        ELSE << >>

\* re.search of  <head>\s+(\d+)\s*chars?|characters?  where <head> is one of heads.
\* The alternation binds loosest, so the second alternative is the bare word
\* "character(s)", which matches with the number group unset (None).
\* [matched, group]: group is <<digits>>, or << >> for None.
LengthSearch(s, heads) ==
    LET first == MinPos({i \in 1..Len(s) : \E h \in heads : NumberedAt(s, i, h) # << >>})
        second == MinPos({i \in 1..Len(s) : LitAt(s, i, "character")})
    IN  IF first # 0 /\ (second = 0 \/ first <= second)
        THEN [matched |-> TRUE,
              group |-> NumberedAt(s, first,
                           CHOOSE h \in heads : NumberedAt(s, first, h) # << >>)]
        ELSE [matched |-> second # 0, group |-> << >>]

LongerHeads == {<<"longer", "than">>, <<"more", "than">>}
AtLeastHeads == {<<"at", "least">>}
FewerHeads == {<<"fewer", "than">>, <<"less", "than">>}
ExactlyHeads == {<<"exactly">>}

\* '?(?P<ch>[a-z])'? at position p: <<ch>>, or << >>
LetterAt(s, p) ==
    IF LitAt(s, p, "'") /\ p + 1 <= Len(s) /\ IsLowerLetter(Char(s, p + 1))
    THEN <<Char(s, p + 1)>>
    ELSE IF p >= 1 /\ p <= Len(s) /\ IsLowerLetter(Char(s, p))
         THEN <<Char(s, p)>>
         ELSE << >>

\* contain(?:ing)?\s+(?:the\s+letter\s+)?'?(?P<ch>[a-z])'? at position i
ContainAt(s, i) ==
    LET j == IF LitAt(s, i + 7, "ing") THEN i + 10 ELSE i + 7
        k == SkipSpace(s, j)
        t == PhraseEnd(s, k, <<"the", "letter">>)
    IN  IF ~(LitAt(s, i, "contain") /\ k > j) THEN << >>
        ELSE IF t # 0 /\ LetterAt(s, t) # << >> THEN LetterAt(s, t)
        ELSE LetterAt(s, k)

\* re.search of the contains pattern: the group ch of the leftmost match
ContainSearch(s) ==
    LET at == MinPos({i \in 1..Len(s) : ContainAt(s, i) # << >>})
    IN  IF at = 0 THEN << >> ELSE ContainAt(s, at)

(***************************************************************************)
(* parse_nl_query, rule by rule in the order of the source.  A rule state  *)
(* is [filters, raised]: raised names the exception that ended the call,   *)
(* "" while none did; a rule reached after an exception does nothing.      *)
(***************************************************************************)
PalindromeRule(q, st) ==
    IF PalindromeSearch(q)
    THEN [st EXCEPT !.filters = DictSet(@, "is_palindrome", TRUE)]
    ELSE st

SingleWordRule(q, st) ==
    IF SingleWordSearch(q)
    THEN [st EXCEPT !.filters = DictSet(@, "word_count", 1)]
    ELSE st

\* int(m.group(n)) of a group that is None raises TypeError
LongerRule(q, st) ==
    LET m == LengthSearch(q, LongerHeads)
    IN  IF st.raised # "" \/ ~m.matched THEN st
        ELSE IF m.group = << >> THEN [st EXCEPT !.raised = "TypeError"]
        ELSE [st EXCEPT !.filters = DictSet(@, "min_length", ParseInt(m.group[1]) + 1)]

AtLeastRule(q, st) ==
    LET m == LengthSearch(q, AtLeastHeads)
    IN  IF st.raised # "" \/ ~m.matched THEN st
        ELSE IF m.group = << >> THEN [st EXCEPT !.raised = "TypeError"]
        ELSE [st EXCEPT !.filters =
                 DictSet(@, "min_length",
                         Max(ParseInt(m.group[1]), DictGet(@, "min_length", 0)))]

FewerRule(q, st) ==
    LET m == LengthSearch(q, FewerHeads)
    IN  IF st.raised # "" \/ ~m.matched THEN st
        ELSE IF m.group = << >> THEN [st EXCEPT !.raised = "TypeError"]
        ELSE [st EXCEPT !.filters = DictSet(@, "max_length", ParseInt(m.group[1]) - 1)]

ExactlyRule(q, st) ==
    LET m == LengthSearch(q, ExactlyHeads)
    IN  IF st.raised # "" \/ ~m.matched THEN st
        ELSE IF m.group = << >> THEN [st EXCEPT !.raised = "TypeError"]
        ELSE [st EXCEPT !.filters =
                 DictSet(DictSet(@, "min_length", ParseInt(m.group[1])),
                         "max_length", ParseInt(m.group[1]))]

ContainsRule(q, st) ==
    LET ch == ContainSearch(q)
    IN  IF st.raised # "" \/ ch = << >> THEN st
        ELSE [st EXCEPT !.filters = DictSet(@, "contains_character", ch[1])]

FirstVowelRule(q, st) ==
    IF st.raised = "" /\ Contains(q, "first vowel")
    THEN [st EXCEPT !.filters = DictSetDefault(@, "contains_character", VOWELS[1])]
    ELSE st

\* the rules in source order
ApplyRules(q) ==
    FirstVowelRule(q,
      ContainsRule(q,
        ExactlyRule(q,
          FewerRule(q,
            AtLeastRule(q,
              LongerRule(q,
                SingleWordRule(q,
                  PalindromeRule(q, [filters |-> EmptyDict, raised |-> ""]))))))))

\* parse_nl_query(raw): [kind, filters], kind "ok" for a return and the
\* exception's name for a raise
parse_nl_query(raw) ==
    IF raw = "" THEN [kind |-> "ValueError", filters |-> EmptyDict]
    ELSE
      LET st == ApplyRules(Lower(Strip(raw)))
          f == st.filters
      IN  IF st.raised # "" THEN [kind |-> st.raised, filters |-> EmptyDict]
          ELSE IF DOMAIN f = {} THEN [kind |-> "ValueError", filters |-> EmptyDict]
          ELSE IF /\ "min_length" \in DOMAIN f
                  /\ "max_length" \in DOMAIN f
                  /\ f["min_length"] > f["max_length"]
               THEN [kind |-> "RuntimeError", filters |-> EmptyDict]
          ELSE [kind |-> "ok", filters |-> f]

(***************************************************************************)
(* GET /strings: the parameter check and the matches predicate of          *)
(* list_strings.  The parameters are a dictionary holding the ones that    *)
(* are not None.                                                           *)
(***************************************************************************)
\* the status list_strings answers: 400 for a rejected parameter, else 200
ListStatus(p) ==
    IF "contains_character" \in DOMAIN p /\ Len(p["contains_character"]) # 1
    THEN 400
    ELSE IF /\ "min_length" \in DOMAIN p
            /\ "max_length" \in DOMAIN p
            /\ p["min_length"] > p["max_length"]
         THEN 400
         ELSE 200

(***************************************************************************)
(* The queries drawn as inputs of the natural-language endpoint            *)
(***************************************************************************)
\* str(n) for n >= 0
RECURSIVE FormatInt(_)
FormatInt(n) ==
    IF n < 10 THEN Char(DigitChars, n + 1)
    ELSE FormatInt(n \div 10) \o Char(DigitChars, (n % 10) + 1)

Join(a, b) == IF a = "" THEN b ELSE IF b = "" THEN a ELSE a \o " " \o b

\* the numbers written in the queries
Numbers == {0, 5, 6, 9, 10, 12}

Subjects ==
    {"", "strings", "strings with", "Strings", "hello world",
     "palindromic strings that", "all single word palindromic strings"}

Comparatives ==
    {"longer than", "more than", "at least", "fewer than", "less than", "exactly"}

Units == {"characters", "chars", ""}

LengthPhrase(c, n, u) == Join(Join(c, FormatInt(n)), u)

LengthPhrases ==
    {LengthPhrase(c, n, u) : c \in Comparatives, n \in Numbers, u \in Units}

ContainPhrases ==
    {Join(Join(v, i), l) : v \in {"contain", "containing", "having"},
                           i \in {"", "the letter", "letter"},
                           l \in {"z", "'z'", "a", "Q"}}
    \cup {"contain the first vowel", "the first vowel",
          "containing the letter z and the first vowel"}

Queries ==
    {Join(s, p) : s \in Subjects, p \in LengthPhrases \cup ContainPhrases \cup {""}}
    \cup {Join(Join(p1, c), p2) : p1 \in LengthPhrases, c \in {"", "and"},
                                  p2 \in LengthPhrases}

(***************************************************************************)
(* analyze_string                                                          *)
(***************************************************************************)
\* the longest string drawn as an input
MaxLen == 3

\* the strings over alphabet of length at most n
RECURSIVE StringsUpTo(_, _)
StringsUpTo(alphabet, n) ==
    IF n = 0 THEN {""}
    ELSE LET S == StringsUpTo(alphabet, n - 1)
         IN  S \cup {t \o c : t \in S, c \in alphabet}

\* s[::-1]
RECURSIVE Reverse(_)
Reverse(s) ==
    IF Len(s) = 0 THEN "" ELSE Reverse(SubSeq(s, 2, Len(s))) \o Char(s, 1)

\* len(s.split()): the number of maximal runs of non-whitespace characters
WordCount(s) ==
    Cardinality({i \in 1..Len(s) :
                    /\ ~IsSpace(Char(s, i))
                    /\ (i = 1 \/ IsSpace(Char(s, i - 1)))})

\* a Counter that records a character without counting its repeats
CounterAddOnce(d, c) == DictSet(d, c, 1)

\* the increment Counter applies to the count of c
CounterAdd(d, c) == DictSet(d, c, DictGet(d, c, 0) + 1)

\* dict(Counter(s)): one increment per character, left to right
RECURSIVE Counter(_)
Counter(s) ==
    IF Len(s) = 0 THEN EmptyDict
    ELSE CounterAdd(Counter(SubSeq(s, 1, Len(s) - 1)), Char(s, Len(s)))

\* the digest is not computed: it is a value that determines, and is determined
\* by, the string hashed
sha256_hex(s) == <<"sha256", s>>

analyze_string(v) ==
    [length |-> Len(v),
     is_palindrome |-> Lower(v) = Reverse(Lower(v)),
     unique_characters |-> Cardinality(CharsOf(v)),
     word_count |-> WordCount(v),
     sha256_hash |-> sha256_hex(v),
     character_frequency_map |-> Counter(v)]

AnalyzeAlphabet == {"a", "A", " ", "!"}

ANIdle ==
    /\ value = ""
    /\ anpc = "idle"
    /\ props = EmptyDict

ANInit ==
    /\ value \in StringsUpTo(AnalyzeAlphabet, MaxLen)
    /\ anpc = "call"
    /\ props = EmptyDict

Analyze ==
    /\ anpc = "call"
    /\ anpc' = "done"
    /\ props' = analyze_string(value)
    /\ UNCHANGED <<value, nlvars, lsvars, rtvars, stvars>>

(***************************************************************************)
(* GET /strings over the rows create_string stored                         *)
(***************************************************************************)
\* the row create_string builds for a value (created_at, the clock's, left out)
StringRecord(v) ==
    LET p == analyze_string(v)
    IN  [id |-> p.sha256_hash,
         value |-> v,
         length |-> p.length,
         is_palindrome |-> p.is_palindrome,
         unique_characters |-> p.unique_characters,
         word_count |-> p.word_count,
         sha256_hash |-> p.sha256_hash,
         character_frequency_map |-> p.character_frequency_map]

to_out(r) ==
    [id |-> r.id,
     value |-> r.value,
     properties |-> [length |-> r.length,
                     is_palindrome |-> r.is_palindrome,
                     unique_characters |-> r.unique_characters,
                     word_count |-> r.word_count,
                     sha256_hash |-> r.sha256_hash,
                     character_frequency_map |-> r.character_frequency_map]]

\* matches with the min_length test off by one (<= for <)
matchesStrictMin(r, p) ==
    IF "is_palindrome" \in DOMAIN p /\ r.is_palindrome # p["is_palindrome"]
    THEN FALSE
    ELSE IF "min_length" \in DOMAIN p /\ r.length <= p["min_length"]
    THEN FALSE
    ELSE IF "max_length" \in DOMAIN p /\ r.length > p["max_length"]
    THEN FALSE
    ELSE IF "word_count" \in DOMAIN p /\ r.word_count # p["word_count"]
    THEN FALSE
    ELSE IF "contains_character" \in DOMAIN p
            /\ ~Contains(r.value, p["contains_character"])
    THEN FALSE
    ELSE TRUE

\* matches(r) of list_strings, test by test with its early returns
matches(r, p) ==
    IF "is_palindrome" \in DOMAIN p /\ r.is_palindrome # p["is_palindrome"]
    THEN FALSE
    ELSE IF "min_length" \in DOMAIN p /\ r.length < p["min_length"]
    THEN FALSE
    ELSE IF "max_length" \in DOMAIN p /\ r.length > p["max_length"]
    THEN FALSE
    ELSE IF "word_count" \in DOMAIN p /\ r.word_count # p["word_count"]
    THEN FALSE
    ELSE IF "contains_character" \in DOMAIN p
            /\ ~Contains(r.value, p["contains_character"])
    THEN FALSE
    ELSE TRUE

\* [to_out(r) for r in rows if matches(r)]
RECURSIVE Filtered(_, _)
Filtered(rows, p) ==
    IF Len(rows) = 0 THEN << >>
    ELSE IF matches(Head(rows), p)
         THEN <<to_out(Head(rows))>> \o Filtered(Tail(rows), p)
         ELSE Filtered(Tail(rows), p)

\* the response of list_strings
ListResponse(rows, p) ==
    IF ListStatus(p) = 400 THEN [status |-> 400, data |-> << >>]
    ELSE [status |-> 200, data |-> Filtered(rows, p)]

\* a parameter that is None, or one of vals
Optional(vals) == {<< >>} \cup {<<x>> : x \in vals}

WithParam(d, k, o) == IF o = << >> THEN d ELSE DictSet(d, k, o[1])

RecordAlphabet == {"a", "A", " "}

\* the largest word_count asked for
MaxWords == 2

ListParams ==
    {WithParam(WithParam(WithParam(WithParam(WithParam(EmptyDict,
        "is_palindrome", ip), "min_length", mn), "max_length", mx),
        "word_count", wc), "contains_character", cc) :
        ip \in Optional(BOOLEAN), mn \in Optional(0..MaxLen),
        mx \in Optional(0..MaxLen), wc \in Optional(0..MaxWords),
        cc \in Optional({"a", "A", "aa"})}

LSIdle ==
    /\ recs = << >>
    /\ params = EmptyDict
    /\ lspc = "idle"
    /\ listed = [status |-> 0, data |-> << >>]

LSInit ==
    /\ recs \in {<<StringRecord(v)>> : v \in StringsUpTo(RecordAlphabet, MaxLen)}
    /\ params \in ListParams
    /\ lspc = "call"
    /\ listed = [status |-> 0, data |-> << >>]

list_strings ==
    /\ lspc = "call"
    /\ lspc' = "done"
    /\ listed' = ListResponse(recs, params)
    /\ UNCHANGED <<recs, params, nlvars, anvars, rtvars, stvars>>

(***************************************************************************)
(* GET /strings/filter-by-natural-language                                 *)
(***************************************************************************)
\* ValueError -> 400, RuntimeError -> 422; any other exception is not caught
\* and the server answers 500; a parsed query is answered by list_strings
NLStatus(r, result) ==
    CASE r.kind = "ValueError" -> 400
      [] r.kind = "RuntimeError" -> 422
      [] r.kind = "ok" -> result.status
      [] OTHER -> 500


NLIdle ==
    /\ query = ""
    /\ nlpc = "idle"
    /\ outcome = [kind |-> "none", filters |-> EmptyDict]
    /\ status = 0

NLInit ==
    /\ query \in Queries
    /\ nlpc = "call"
    /\ outcome = [kind |-> "none", filters |-> EmptyDict]
    /\ status = 0

\* the handler: parse_nl_query, then list_strings with the parsed filters
filter_by_natural_language ==
    /\ nlpc = "call"
    /\ nlpc' = "done"
    /\ outcome' = parse_nl_query(query)
    /\ listed' = IF outcome'.kind = "ok"
                  THEN ListResponse(recs, outcome'.filters)
                  ELSE listed
    /\ status' = NLStatus(outcome', listed')
    /\ UNCHANGED <<query, recs, params, lspc, anvars, rtvars, stvars>>

(***************************************************************************)
(* The route table of app, in the order the decorators register the        *)
(* routes, and the router's dispatch: the first route whose path and       *)
(* method both match serves the request.                                   *)
(***************************************************************************)
\* a route's path is prefix, followed by one path parameter when param
Routes ==
    <<[method |-> "GET", prefix |-> "/openapi.json", param |-> FALSE,
       endpoint |-> "openapi"],
      [method |-> "GET", prefix |-> "/docs", param |-> FALSE,
       endpoint |-> "swagger_ui_html"],
      [method |-> "GET", prefix |-> "/docs/oauth2-redirect", param |-> FALSE,
       endpoint |-> "swagger_ui_redirect"],
      [method |-> "GET", prefix |-> "/redoc", param |-> FALSE,
       endpoint |-> "redoc_html"],
      [method |-> "GET", prefix |-> "/", param |-> FALSE, endpoint |-> "root"],
      [method |-> "GET", prefix |-> "/healthz", param |-> FALSE,
       endpoint |-> "healthz"],
      [method |-> "POST", prefix |-> "/strings", param |-> FALSE,
       endpoint |-> "create_string"],
      [method |-> "GET", prefix |-> "/strings/", param |-> TRUE,
       endpoint |-> "get_string"],
      [method |-> "GET", prefix |-> "/strings", param |-> FALSE,
       endpoint |-> "list_strings"],
      [method |-> "GET", prefix |-> "/strings/filter-by-natural-language",
       param |-> FALSE, endpoint |-> "filter_by_natural_language"],
      [method |-> "DELETE", prefix |-> "/strings/", param |-> TRUE,
       endpoint |-> "delete_string"]>>

\* the text a path parameter takes from path
ParamOf(route, path) == SubSeq(path, Len(route.prefix) + 1, Len(path))

\* the path matches the route's: a path parameter is one or more characters
\* other than "/"
PathMatches(route, path) ==
    IF route.param
    THEN /\ LitAt(path, 1, route.prefix)
         /\ Len(path) > Len(route.prefix)
         /\ ~Contains(ParamOf(route, path), "/")
    ELSE path = route.prefix

FullMatch(route, req) == PathMatches(route, req.path) /\ route.method = req.method

\* path.rstrip("/")
RECURSIVE RStripSlash(_)
RStripSlash(path) ==
    IF Len(path) > 0 /\ Char(path, Len(path)) = "/"
    THEN RStripSlash(SubSeq(path, 1, Len(path) - 1))
    ELSE path

\* the path the router tries for a redirect: the trailing slashes removed, or
\* one added
ToggleSlash(path) ==
    IF Len(path) > 0 /\ Char(path, Len(path)) = "/"
    THEN RStripSlash(path)
    ELSE path \o "/"

\* the index of the first route that serves the request, 0 when none does
FirstRoute(req) == MinPos({k \in 1..Len(Routes) : FullMatch(Routes[k], req)})

\* the router: first full match; else 405 when some route's path matches; else
\* a redirect when the path with its slash toggled matches; else 404
Dispatch(req) ==
    IF FirstRoute(req) # 0
    THEN LET route == Routes[FirstRoute(req)]
         IN  [endpoint |-> route.endpoint,
              string_value |-> IF route.param THEN ParamOf(route, req.path) ELSE ""]
    ELSE IF \E k \in 1..Len(Routes) : PathMatches(Routes[k], req.path)
    THEN [endpoint |-> "405", string_value |-> ""]
    ELSE IF /\ req.path # "/"
            /\ \E k \in 1..Len(Routes) : PathMatches(Routes[k], ToggleSlash(req.path))
    THEN [endpoint |-> "307", string_value |-> ""]
    ELSE [endpoint |-> "404", string_value |-> ""]

Methods == {"GET", "POST", "DELETE"}

Paths ==
    {"/", "/healthz", "/strings", "/strings/", "/strings/filter-by-natural-language",
     "/strings/filter-by-natural-language/", "/docs", "/other"}
    \cup {"/strings/" \o v : v \in StringsUpTo({"a", "b", "/"}, MaxLen)}

RTIdle ==
    /\ request = [method |-> "", path |-> ""]
    /\ rtpc = "idle"
    /\ handler = [endpoint |-> "", string_value |-> ""]

RTInit ==
    /\ request \in [method : Methods, path : Paths]
    /\ rtpc = "call"
    /\ handler = [endpoint |-> "", string_value |-> ""]

Route ==
    /\ rtpc = "call"
    /\ rtpc' = "done"
    /\ handler' = Dispatch(request)
    /\ UNCHANGED <<request, nlvars, anvars, lsvars, stvars>>

(***************************************************************************)
(* POST /strings and DELETE /strings/{string_value}, each served by a      *)
(* worker thread with a session of its own: the select and the commit of   *)
(* one handler are two steps, and other handlers run between them.         *)
(***************************************************************************)
\* the number of requests in flight
MaxRequests == 3

Workers == 1..MaxRequests

StoredValues == {"a", "b"}

\* a row with this value is in the table
Stored(rows, v) == \E k \in 1..Len(rows) : rows[k].value = v

\* the table without the rows of value v
RECURSIVE Without(_, _)
Without(rows, v) ==
    IF Len(rows) = 0 THEN << >>
    ELSE IF Head(rows).value = v THEN Without(Tail(rows), v)
         ELSE <<Head(rows)>> \o Without(Tail(rows), v)

STIdle ==
    /\ store = << >>
    /\ reqs = << >>
    /\ rpc = << >>
    /\ resp = << >>

STInit ==
    /\ store = << >>
    /\ reqs \in [Workers -> [op : {"POST", "DELETE"}, value : StoredValues]]
    /\ rpc = [w \in Workers |-> "start"]
    /\ resp = [w \in Workers |-> 0]

\* create_string up to the duplicate check: 409 when the select finds the value
CreateSelect(w) ==
    /\ rpc[w] = "start"
    /\ reqs[w].op = "POST"
    /\ IF Stored(store, reqs[w].value)
       THEN /\ rpc' = [rpc EXCEPT ![w] = "done"]
            /\ resp' = [resp EXCEPT ![w] = 409]
       ELSE /\ rpc' = [rpc EXCEPT ![w] = "commit"]
            /\ UNCHANGED resp
    /\ UNCHANGED <<store, reqs, nlvars, anvars, lsvars, rtvars>>

\* session.add and session.commit: the INSERT fails on the unique value (and the
\* primary key) when the row is there by now; nothing catches the error and
\* the server answers 500
CreateCommit(w) ==
    /\ rpc[w] = "commit"
    /\ reqs[w].op = "POST"
    /\ rpc' = [rpc EXCEPT ![w] = "done"]
    /\ IF Stored(store, reqs[w].value)
       THEN /\ resp' = [resp EXCEPT ![w] = 500]
            /\ UNCHANGED store
       ELSE /\ resp' = [resp EXCEPT ![w] = 201]
            /\ store' = Append(store, StringRecord(reqs[w].value))
    /\ UNCHANGED <<reqs, nlvars, anvars, lsvars, rtvars>>

\* delete_string up to the lookup: 404 when the select finds no row
DeleteSelect(w) ==
    /\ rpc[w] = "start"
    /\ reqs[w].op = "DELETE"
    /\ IF Stored(store, reqs[w].value)
       THEN /\ rpc' = [rpc EXCEPT ![w] = "commit"]
            /\ UNCHANGED resp
       ELSE /\ rpc' = [rpc EXCEPT ![w] = "done"]
            /\ resp' = [resp EXCEPT ![w] = 404]
    /\ UNCHANGED <<store, reqs, nlvars, anvars, lsvars, rtvars>>

\* session.delete and session.commit
DeleteCommit(w) ==
    /\ rpc[w] = "commit"
    /\ reqs[w].op = "DELETE"
    /\ rpc' = [rpc EXCEPT ![w] = "done"]
    /\ resp' = [resp EXCEPT ![w] = 204]
    /\ store' = Without(store, reqs[w].value)
    /\ UNCHANGED <<reqs, nlvars, anvars, lsvars, rtvars>>

(***************************************************************************)
(* The specifications: one per part of the service, the other parts idle.  *)
(***************************************************************************)
InitInterpret == NLInit /\ ANIdle /\ LSIdle /\ RTIdle /\ STIdle
NextInterpret == filter_by_natural_language
SpecInterpret == InitInterpret /\ [][NextInterpret]_vars

InitAnalyze == NLIdle /\ ANInit /\ LSIdle /\ RTIdle /\ STIdle
NextAnalyze == Analyze
SpecAnalyze == InitAnalyze /\ [][NextAnalyze]_vars

InitList == NLIdle /\ ANIdle /\ LSInit /\ RTIdle /\ STIdle
NextList == list_strings
SpecList == InitList /\ [][NextList]_vars

InitRoute == NLIdle /\ ANIdle /\ LSIdle /\ RTInit /\ STIdle
NextRoute == Route
SpecRoute == InitRoute /\ [][NextRoute]_vars

InitStore == NLIdle /\ ANIdle /\ LSIdle /\ RTIdle /\ STInit
NextStore ==
    \E w \in Workers :
        \/ CreateSelect(w)
        \/ CreateCommit(w)
        \/ DeleteSelect(w)
        \/ DeleteCommit(w)
SpecStore == InitStore /\ [][NextStore]_vars

(***************************************************************************)
(* The properties                                                          *)
(***************************************************************************)
Returned(f) == outcome = [kind |-> "ok", filters |-> f]

\* subjects no rule recognises
PlainSubjects == {"", "strings", "strings with"}

WordUnits == {"characters", "chars"}

\* C1: a query whose only recognisable phrase is one comparative length phrase
\* "<comparative> N characters" returns exactly the inclusive bounds of the
\* phrase: longer/more than N gives min_length = N + 1, fewer/less than N gives
\* max_length = N - 1, exactly N gives min_length = max_length = N.
C1_ComparativeLength ==
    nlpc = "done" =>
        \A sub \in PlainSubjects : \A n \in Numbers :
            /\ \A c \in {"longer than", "more than"} :
                  query = Join(sub, LengthPhrase(c, n, "characters"))
                      => Returned(DictSet(EmptyDict, "min_length", n + 1))
            /\ \A c \in {"fewer than", "less than"} :
                  query = Join(sub, LengthPhrase(c, n, "characters"))
                      => Returned(DictSet(EmptyDict, "max_length", n - 1))
            /\ query = Join(sub, LengthPhrase("exactly", n, "characters"))
                  => Returned(DictSet(DictSet(EmptyDict, "min_length", n),
                                      "max_length", n))

\* C2: whenever the normalized query contains "first vowel" the parser returns
\* contains_character = "a", whatever the generic contains rule extracted; and
\* "palindromic strings that contain the first vowel" returns exactly
\* {is_palindrome: True, contains_character: "a"}.
C2_FirstVowel ==
    nlpc = "done" =>
        /\ Contains(Lower(Strip(query)), "first vowel")
              => /\ outcome.kind = "ok"
                 /\ "contains_character" \in DOMAIN outcome.filters
                 /\ outcome.filters["contains_character"] = VOWELS[1]
        /\ query = "palindromic strings that contain the first vowel"
              => Returned(DictSet(DictSet(EmptyDict, "is_palindrome", TRUE),
                                  "contains_character", "a"))

\* the lower bound a phrase "<comparative> n" stands for
LowerBound(c, n) == IF c = "at least" THEN n ELSE n + 1

\* C3: a query whose length phrases give a lower bound above the upper bound
\* ("more than 9 characters" with "less than 6 characters") fails with the
\* conflicting-filters error (RuntimeError, answered 422).
C3_Conflict ==
    nlpc = "done" =>
        /\ \A lo \in {"longer than", "more than", "at least"} :
           \A hi \in {"fewer than", "less than"} :
           \A m \in Numbers : \A n \in Numbers :
              (/\ LowerBound(lo, m) > n - 1
               /\ \E u1 \in WordUnits : \E u2 \in WordUnits : \E c \in {"", "and"} :
                     query = Join(Join(LengthPhrase(lo, m, u1), c),
                                  LengthPhrase(hi, n, u2)))
              => outcome.kind = "RuntimeError" /\ status = 422
        /\ query = "more than 9 characters and less than 6 characters"
              => outcome.kind = "RuntimeError" /\ status = 422

\* C4: a call of the parser ends in one of three ways: it returns a filter
\* dictionary with at least one key, it raises ValueError (cannot parse), or it
\* raises RuntimeError (conflicting filters); the endpoint answers 200, 400
\* or 422.
C4_Outcomes ==
    nlpc = "done" =>
        /\ outcome.kind \in {"ok", "ValueError", "RuntimeError"}
        /\ outcome.kind = "ok" => DOMAIN outcome.filters # {}
        /\ status \in {200, 400, 422}

\* C5: "at least N" after "longer than M" / "more than M" keeps the stricter
\* lower bound: the query returns min_length = max(M + 1, N); and
\* "more than 9 and at least 12 characters" returns min_length = 12.
C5_AtLeastMerges ==
    nlpc = "done" =>
        /\ \A lo \in {"longer than", "more than"} :
           \A m \in Numbers : \A n \in Numbers :
           \A u1 \in WordUnits : \A u2 \in WordUnits : \A c \in {"", "and"} :
              query = Join(Join(LengthPhrase(lo, m, u1), c),
                           LengthPhrase("at least", n, u2))
              => Returned(DictSet(EmptyDict, "min_length", Max(m + 1, n)))
        /\ query = "more than 9 and at least 12 characters"
              => Returned(DictSet(EmptyDict, "min_length", 12))

\* C6: with the verb "contain" or "containing" and no "first vowel", a letter
\* X named bare, after "the letter", or in single quotes (as in "strings
\* containing the letter z" and "contain letter 'z'") gives
\* contains_character = X; without the verb the rule sets nothing.
C6_ContainsLetter ==
    nlpc = "done" =>
        /\ \A sub \in PlainSubjects : \A x \in {"a", "z"} :
           \A i \in {"", "the letter"} : \A l \in {x, "'" \o x \o "'"} :
              /\ \A v \in {"contain", "containing"} :
                    query = Join(sub, Join(Join(v, i), l))
                        => Returned(DictSet(EmptyDict, "contains_character", x))
              /\ query = Join(sub, Join(Join("having", i), l))
                    => "contains_character" \notin DOMAIN outcome.filters
        /\ query = "strings containing the letter z"
              => Returned(DictSet(EmptyDict, "contains_character", "z"))
        /\ query = "contain letter 'z'"
              => Returned(DictSet(EmptyDict, "contains_character", "z"))

\* every constraint present in p holds of the row
Satisfies(r, p) ==
    /\ "is_palindrome" \in DOMAIN p => r.is_palindrome = p["is_palindrome"]
    /\ "min_length" \in DOMAIN p => r.length >= p["min_length"]
    /\ "max_length" \in DOMAIN p => r.length <= p["max_length"]
    /\ "word_count" \in DOMAIN p => r.word_count = p["word_count"]
    /\ "contains_character" \in DOMAIN p
          => \E k \in 1..Len(r.value) : Char(r.value, k) = p["contains_character"]

Listed(r) == \E j \in 1..Len(listed.data) : listed.data[j] = to_out(r)

\* C7: a row is listed iff every constraint that is present holds of it; with
\* no constraint present every row is listed, and a row that is no palindrome
\* is never listed under is_palindrome = True.
C7_Matches ==
    lspc = "done" /\ listed.status = 200 =>
        \A k \in 1..Len(recs) :
            /\ Listed(recs[k]) <=> Satisfies(recs[k], params)
            /\ params = EmptyDict => Listed(recs[k])
            /\ ("is_palindrome" \in DOMAIN params /\ params["is_palindrome"]
                   /\ ~recs[k].is_palindrome) => ~Listed(recs[k])

\* a row listed under all five constraints
C7_Witness ==
    /\ lspc = "done"
    /\ listed.status = 200
    /\ DOMAIN params = {"is_palindrome", "min_length", "max_length",
                        "word_count", "contains_character"}
    /\ params["min_length"] = recs[1].length
    /\ Len(listed.data) = 1

\* the sum of the values of a dictionary
RECURSIVE SumOver(_, _)
SumOver(d, keys) ==
    IF keys = {} THEN 0
    ELSE LET k == CHOOSE x \in keys : TRUE
         IN  d[k] + SumOver(d, keys \ {k})

\* C8: the counts of character_frequency_map add up to length, for every
\* string, the empty one and those with whitespace and punctuation included.
C8_FrequencySum ==
    anpc = "done" =>
        SumOver(props.character_frequency_map,
                DOMAIN props.character_frequency_map) = props.length

\* an analyzed string with a repeated character, whitespace and punctuation
C8_Witness ==
    /\ anpc = "done"
    /\ props.length = MaxLen
    /\ props.unique_characters < props.length
    /\ {" ", "!"} \subseteq DOMAIN props.character_frequency_map

\* C9: GET /strings/filter-by-natural-language is served by
\* filter_by_natural_language, not by get_string as a lookup of the value
\* "filter-by-natural-language".
C9_NaturalLanguageRoute ==
    (rtpc = "done" /\ request = [method |-> "GET",
                                 path |-> "/strings/filter-by-natural-language"])
        => handler = [endpoint |-> "filter_by_natural_language", string_value |-> ""]

\* C10: a POST is answered 201 when it stores its value and 409 when the value
\* is stored already, under every interleaving; no POST ends in another
\* error, and the table never holds a value twice.
C10_DuplicatePost ==
    /\ \A w \in DOMAIN reqs :
          (reqs[w].op = "POST" /\ rpc[w] = "done") => resp[w] \in {201, 409}
    /\ \A j \in 1..Len(store) : \A k \in 1..Len(store) :
          store[j].value = store[k].value => j = k

====
